---------------------------- MODULE Spec2Model ----------------------------
(***************************************************************************)
(* A model of the ternary search tree of src/src/lib.rs: the tree core     *)
(* (insert, get, remove, clear), the recursive visitors and the four       *)
(* double-ended iterators.                                                 *)
(*                                                                         *)
(* Encoding.  A char is its code point (a natural number), a &str is the   *)
(* sequence of its chars; char comparison is comparison of code points.    *)
(* An Option is a sequence of length at most one: None is <<>> and Some(x) *)
(* is <<x>>.  A Link is an Option of a node, a node is a record with the   *)
(* fields of struct Node.  A reference to a node (&'a Node<T>) is the path *)
(* of link names leading to it from the root link, so that ptr::eq is      *)
(* equality of paths.                                                      *)
(***************************************************************************)
EXTENDS Integers, Sequences, FiniteSets, TLC

\* ------------------------------------------------------------------ bounds
\* longest key, prefix, reference key or pattern given to an operation
MaxKeyLen == 2
\* an insert that would grow the tree beyond this many nodes is not taken
MaxNodes == 4

\* the chars keys are made of: 'a', 'b' and 'é' (two bytes in UTF-8)
Chars == {97, 98, 233}
\* the values stored
Values == {1, 2}
\* the largest mismatch budget given to a neighbor search
MaxRange == 2
\* calls still made on an iterator after one has returned None
MaxNones == 2
\* the chars given as wildcard: '?' and 'b'
Jokers == {63, 98}

None == <<>>
Some(x) == <<x>>

RECURSIVE StringsUpTo(_, _)
StringsUpTo(alphabet, n) ==
    IF n = 0 THEN {<<>>}
    ELSE LET shorter == StringsUpTo(alphabet, n - 1)
         IN  shorter \cup {<<c>> \o s : c \in alphabet, s \in {t \in shorter : Len(t) = n - 1}}

\* the keys handed to the operations, the empty key included
Keys == StringsUpTo(Chars, MaxKeyLen)
\* the crossword patterns
Patterns == StringsUpTo(Chars \cup Jokers, MaxKeyLen)

\* ------------------------------------------------------------- the program

\* char::len_utf8, summed by str::len(): the length of a &str in bytes
RECURSIVE str_len(_)
str_len(key) ==
    IF key = <<>> THEN 0
    ELSE (IF Head(key) < 128 THEN 1 ELSE IF Head(key) < 2048 THEN 2
          ELSE IF Head(key) < 65536 THEN 3 ELSE 4) + str_len(Tail(key))

\* Node { label, .. Default::default() }
NewNode(label) ==
    [label |-> label, value |-> None, left |-> None, middle |-> None, right |-> None]

\* insert_r with a fault: the middle subtree is built anew
RECURSIVE insert_r_fresh_middle(_, _, _, _)
insert_r_fresh_middle(link, label, key_tail, value) ==
    LET node == IF link = None THEN NewNode(label) ELSE link[1]
    IN  IF label < node.label
        THEN LET r == insert_r_fresh_middle(node.left, label, key_tail, value)
             IN  [link |-> Some([node EXCEPT !.left = r.link]), old |-> r.old]
        ELSE IF label > node.label
        THEN LET r == insert_r_fresh_middle(node.right, label, key_tail, value)
             IN  [link |-> Some([node EXCEPT !.right = r.link]), old |-> r.old]
        ELSE IF key_tail = <<>>
        THEN [link |-> Some([node EXCEPT !.value = Some(value)]), old |-> node.value]
        ELSE LET r == insert_r_fresh_middle(None, Head(key_tail), Tail(key_tail), value)
             IN  [link |-> Some([node EXCEPT !.middle = r.link]), old |-> r.old]

\* insert_r with a fault: a smaller label goes to the right link, a greater one to the left
RECURSIVE insert_r_mirrored(_, _, _, _)
insert_r_mirrored(link, label, key_tail, value) ==
    LET node == IF link = None THEN NewNode(label) ELSE link[1]
    IN  IF label < node.label
        THEN LET r == insert_r_mirrored(node.right, label, key_tail, value)
             IN  [link |-> Some([node EXCEPT !.right = r.link]), old |-> r.old]
        ELSE IF label > node.label
        THEN LET r == insert_r_mirrored(node.left, label, key_tail, value)
             IN  [link |-> Some([node EXCEPT !.left = r.link]), old |-> r.old]
        ELSE IF key_tail = <<>>
        THEN [link |-> Some([node EXCEPT !.value = Some(value)]), old |-> node.value]
        ELSE LET r == insert_r_mirrored(node.middle, Head(key_tail), Tail(key_tail), value)
             IN  [link |-> Some([node EXCEPT !.middle = r.link]), old |-> r.old]

\* insert_r with a fault: the value replaced is not returned
RECURSIVE insert_r_forgetting(_, _, _, _)
insert_r_forgetting(link, label, key_tail, value) ==
    LET node == IF link = None THEN NewNode(label) ELSE link[1]
    IN  IF label < node.label
        THEN LET r == insert_r_forgetting(node.left, label, key_tail, value)
             IN  [link |-> Some([node EXCEPT !.left = r.link]), old |-> r.old]
        ELSE IF label > node.label
        THEN LET r == insert_r_forgetting(node.right, label, key_tail, value)
             IN  [link |-> Some([node EXCEPT !.right = r.link]), old |-> r.old]
        ELSE IF key_tail = <<>>
        THEN [link |-> Some([node EXCEPT !.value = Some(value)]), old |-> None]
        ELSE LET r == insert_r_forgetting(node.middle, Head(key_tail), Tail(key_tail), value)
             IN  [link |-> Some([node EXCEPT !.middle = r.link]), old |-> r.old]

\* insert_r with a fault: at the end of the key a value already stored is kept
\* (the new value is dropped).
RECURSIVE insert_r_keeping(_, _, _, _)
insert_r_keeping(link, label, key_tail, value) ==
    LET node == IF link = None THEN NewNode(label) ELSE link[1]
    IN  IF label < node.label
        THEN LET r == insert_r_keeping(node.left, label, key_tail, value)
             IN  [link |-> Some([node EXCEPT !.left = r.link]), old |-> r.old]
        ELSE IF label > node.label
        THEN LET r == insert_r_keeping(node.right, label, key_tail, value)
             IN  [link |-> Some([node EXCEPT !.right = r.link]), old |-> r.old]
        ELSE IF key_tail = <<>>
        THEN [link |-> Some([node EXCEPT !.value = IF @ = None THEN Some(value) ELSE @]),
              old |-> node.value]
        ELSE LET r == insert_r_keeping(node.middle, Head(key_tail), Tail(key_tail), value)
             IN  [link |-> Some([node EXCEPT !.middle = r.link]), old |-> r.old]

\* insert_r: the link after the call and the value it returns
RECURSIVE insert_r(_, _, _, _)
insert_r(link, label, key_tail, value) ==
    LET node == IF link = None THEN NewNode(label) ELSE link[1]
    IN  IF label < node.label
        THEN LET r == insert_r(node.left, label, key_tail, value)
             IN  [link |-> Some([node EXCEPT !.left = r.link]), old |-> r.old]
        ELSE IF label > node.label
        THEN LET r == insert_r(node.right, label, key_tail, value)
             IN  [link |-> Some([node EXCEPT !.right = r.link]), old |-> r.old]
        ELSE IF key_tail = <<>>
        THEN [link |-> Some([node EXCEPT !.value = Some(value)]), old |-> node.value]
        ELSE LET r == insert_r(node.middle, Head(key_tail), Tail(key_tail), value)
             IN  [link |-> Some([node EXCEPT !.middle = r.link]), old |-> r.old]

\* get_r
RECURSIVE get_r(_, _, _)
get_r(link, label, key_tail) ==
    IF link = None THEN None
    ELSE LET node == link[1]
         IN  IF label < node.label THEN get_r(node.left, label, key_tail)
             ELSE IF label > node.label THEN get_r(node.right, label, key_tail)
             ELSE IF key_tail = <<>> THEN node.value
             ELSE get_r(node.middle, Head(key_tail), Tail(key_tail))

\* more_pruning with a fault: never true
IsDead_never(node) == FALSE

\* more_pruning with a fault: the left and right links are not looked at
IsDead_middle_only(node) ==
    node.value = None /\ node.middle = None

\* node.value.is_none() && node.left.is_none() && node.middle.is_none() && node.right.is_none()
IsDead(node) ==
    node.value = None /\ node.left = None /\ node.middle = None /\ node.right = None

\* remove_r: (prune, old_value) and the link after the call
RECURSIVE remove_r(_, _, _)
remove_r(link, label, key_tail) ==
    IF link = None THEN [prune |-> FALSE, old |-> None, link |-> link]
    ELSE LET node == link[1]
         IN  IF label < node.label
             THEN LET r == remove_r(node.left, label, key_tail)
                      n == [node EXCEPT !.left = IF r.prune THEN None ELSE r.link]
                  IN  [prune |-> IsDead(n), old |-> r.old, link |-> Some(n)]
             ELSE IF label > node.label
             THEN LET r == remove_r(node.right, label, key_tail)
                      n == [node EXCEPT !.right = IF r.prune THEN None ELSE r.link]
                  IN  [prune |-> IsDead(n), old |-> r.old, link |-> Some(n)]
             ELSE IF key_tail = <<>>
             THEN LET n == [node EXCEPT !.value = None]
                  IN  [prune |-> node.value # None /\ n.left = None
                                 /\ n.middle = None /\ n.right = None,
                       old |-> node.value, link |-> Some(n)]
             ELSE LET r == remove_r(node.middle, Head(key_tail), Tail(key_tail))
                      n == [node EXCEPT !.middle = IF r.prune THEN None ELSE r.link]
                  IN  [prune |-> IsDead(n), old |-> r.old, link |-> Some(n)]

\* Tst::insert with a fault: with an empty key nothing is returned
Tst_insert_dropping(self, key, value) ==
    IF key = <<>> THEN [tst |-> self, ret |-> None]
    ELSE LET r == insert_r(self.root, Head(key), Tail(key), value)
         IN  [tst |-> [root |-> r.link,
                       count |-> IF r.old = None THEN self.count + 1 ELSE self.count],
              ret |-> r.old]

\* Tst::insert with a fault: count grows on every insert
Tst_insert_counting_all(self, key, value) ==
    IF key = <<>> THEN [tst |-> self, ret |-> Some(value)]
    ELSE LET r == insert_r(self.root, Head(key), Tail(key), value)
         IN  [tst |-> [root |-> r.link, count |-> self.count + 1], ret |-> r.old]

\* Tst::insert: the tree after the call and the value it returns
Tst_insert(self, key, value) ==
    IF key = <<>> THEN [tst |-> self, ret |-> Some(value)]
    ELSE LET r == insert_r(self.root, Head(key), Tail(key), value)
         IN  [tst |-> [root |-> r.link,
                       count |-> IF r.old = None THEN self.count + 1 ELSE self.count],
              ret |-> r.old]

\* Tst::get
Tst_get(self, key) ==
    IF key = <<>> THEN None ELSE get_r(self.root, Head(key), Tail(key))

\* get_r_mut: the &mut T it returns is the path to the node that holds the value
RECURSIVE get_r_mut(_, _, _)
get_r_mut(link, label, key_tail) ==
    IF link = None THEN None
    ELSE LET node == link[1]
         IN  IF label < node.label
             THEN LET r == get_r_mut(node.left, label, key_tail)
                  IN  IF r = None THEN None ELSE Some(<<"left">> \o r[1])
             ELSE IF label > node.label
             THEN LET r == get_r_mut(node.right, label, key_tail)
                  IN  IF r = None THEN None ELSE Some(<<"right">> \o r[1])
             ELSE IF key_tail = <<>>
             THEN IF node.value = None THEN None ELSE Some(<<>>)
             ELSE LET r == get_r_mut(node.middle, Head(key_tail), Tail(key_tail))
                  IN  IF r = None THEN None ELSE Some(<<"middle">> \o r[1])

\* Tst::get_mut with a fault: an empty key refers to the root node
Tst_get_mut_to_root(self, key) ==
    IF key = <<>> THEN (IF self.root # None THEN Some(<<>>) ELSE None)
    ELSE get_r_mut(self.root, Head(key), Tail(key))

\* Tst::get_mut
Tst_get_mut(self, key) ==
    IF key = <<>> THEN None ELSE get_r_mut(self.root, Head(key), Tail(key))

\* Tst::remove with a fault: count goes down on every remove of a non-empty key
Tst_remove_counting_all(self, key) ==
    LET r == IF key = <<>> THEN [prune |-> FALSE, old |-> None, link |-> self.root]
             ELSE remove_r(self.root, Head(key), Tail(key))
    IN  [tst |-> [root |-> IF r.prune THEN None ELSE r.link,
                  count |-> IF key # <<>> /\ self.count > 0 THEN self.count - 1
                            ELSE self.count],
         ret |-> r.old]

\* Tst::remove with a fault: the root link is never dropped
Tst_remove_keeping_root(self, key) ==
    LET r == IF key = <<>> THEN [prune |-> FALSE, old |-> None, link |-> self.root]
             ELSE remove_r(self.root, Head(key), Tail(key))
    IN  [tst |-> [root |-> r.link,
                  count |-> IF r.old # None THEN self.count - 1 ELSE self.count],
         ret |-> r.old]

\* Tst::remove
Tst_remove(self, key) ==
    LET r == IF key = <<>> THEN [prune |-> FALSE, old |-> None, link |-> self.root]
             ELSE remove_r(self.root, Head(key), Tail(key))
    IN  [tst |-> [root |-> IF r.prune THEN None ELSE r.link,
                  count |-> IF r.old # None THEN self.count - 1 ELSE self.count],
         ret |-> r.old]

\* Tst::len
Tst_len(self) == self.count

\* Tst::new, and the tree Tst::clear leaves
Tst_new == [root |-> None, count |-> 0]

\* Tst::clear with a fault: count is not reset
Tst_clear_keeping_count(self) ==
    [root |-> None, count |-> self.count]

\* Tst::clear: the tree it leaves
Tst_clear(self) ==
    [root |-> None, count |-> 0]

\* the number of nodes a link owns
RECURSIVE NodeCount(_)
NodeCount(link) ==
    IF link = None THEN 0
    ELSE 1 + NodeCount(link[1].left) + NodeCount(link[1].middle) + NodeCount(link[1].right)

\* find_complete_root_r with a fault: at the end of the prefix the link of the
\* node reached is returned, not the node's middle link
RECURSIVE find_complete_root_r_at_node(_, _, _)
find_complete_root_r_at_node(link, label, key_tail) ==
    IF link = None THEN link
    ELSE LET node == link[1]
         IN  IF label < node.label THEN find_complete_root_r_at_node(node.left, label, key_tail)
             ELSE IF label > node.label
             THEN find_complete_root_r_at_node(node.right, label, key_tail)
             ELSE IF key_tail = <<>> THEN link
             ELSE find_complete_root_r_at_node(node.middle, Head(key_tail), Tail(key_tail))

\* find_complete_root_r: the link its result refers to
RECURSIVE find_complete_root_r(_, _, _)
find_complete_root_r(link, label, key_tail) ==
    IF link = None THEN link
    ELSE LET node == link[1]
         IN  IF label < node.label THEN find_complete_root_r(node.left, label, key_tail)
             ELSE IF label > node.label THEN find_complete_root_r(node.right, label, key_tail)
             ELSE IF key_tail = <<>> THEN node.middle
             ELSE find_complete_root_r(node.middle, Head(key_tail), Tail(key_tail))

\* The visitors: each is modelled by the sequence of values its callback receives.
\* An Option is already the sequence of the values it holds.

\* visit_values_r
RECURSIVE visit_values_r(_)
visit_values_r(link) ==
    IF link = None THEN <<>>
    ELSE LET node == link[1]
         IN  visit_values_r(node.left) \o node.value
             \o visit_values_r(node.middle) \o visit_values_r(node.right)

\* visit_complete_values_r with a fault: the value of the first node is skipped
visit_complete_values_r_skipping(link) ==
    IF link = None THEN <<>>
    ELSE LET node == link[1]
         IN  visit_values_r(node.left)
             \o visit_values_r(node.middle) \o visit_values_r(node.right)

\* visit_complete_values_r
visit_complete_values_r(link) ==
    IF link = None THEN <<>>
    ELSE LET node == link[1]
         IN  visit_values_r(node.left) \o node.value
             \o visit_values_r(node.middle) \o visit_values_r(node.right)

\* let mut new_tail = key_tail.clone(); let new_label = new_tail.next();
NextLabel(key_tail) == IF key_tail = <<>> THEN None ELSE Some(Head(key_tail))
NextTail(key_tail) == IF key_tail = <<>> THEN <<>> ELSE Tail(key_tail)

\* match label { None => 1, Some(label) => if label==node.label { 0 } else { 1 } }
Delta(label, node) == IF label # None /\ label[1] = node.label THEN 0 ELSE 1

\* visit_neighbor_values_r; label is an Option<char>
RECURSIVE visit_neighbor_values_r(_, _, _, _, _)
visit_neighbor_values_r(link, label, key_tail, tail_len, range) ==
    IF range = 0
    THEN IF label # None THEN get_r(link, label[1], key_tail) ELSE <<>>
    ELSE IF link = None THEN <<>>
    ELSE LET node == link[1]
             new_range == range - Delta(label, node)
             new_len == IF tail_len > 0 THEN tail_len - 1 ELSE tail_len
         IN  visit_neighbor_values_r(node.left, label, key_tail, tail_len, range)
             \o (IF node.value # None /\ tail_len <= new_range THEN node.value ELSE <<>>)
             \o visit_neighbor_values_r(node.middle, NextLabel(key_tail), NextTail(key_tail),
                                        new_len, new_range)
             \o visit_neighbor_values_r(node.right, label, key_tail, tail_len, range)

\* visit_crossword_values_r
RECURSIVE visit_crossword_values_r(_, _, _, _)
visit_crossword_values_r(link, label, key_tail, joker) ==
    IF link = None THEN <<>>
    ELSE LET node == link[1]
         IN  (IF label = joker \/ label < node.label
              THEN visit_crossword_values_r(node.left, label, key_tail, joker) ELSE <<>>)
             \o (IF label = joker \/ label = node.label
                 THEN IF key_tail = <<>> THEN node.value
                      ELSE visit_crossword_values_r(node.middle, Head(key_tail),
                                                    Tail(key_tail), joker)
                 ELSE <<>>)
             \o (IF label = joker \/ label > node.label
                 THEN visit_crossword_values_r(node.right, label, key_tail, joker) ELSE <<>>)

\* Tst::visit_values
Tst_visit_values(self) == visit_values_r(self.root)

\* Tst::visit_complete_values
Tst_visit_complete_values(self, key) ==
    IF key = <<>> THEN visit_values_r(self.root)
    ELSE visit_complete_values_r(find_complete_root_r(self.root, Head(key), Tail(key)))

\* let tail_len = if key.len() == 0 { 0 } else { key.len()-1 };
TailLen(key) == IF str_len(key) = 0 THEN 0 ELSE str_len(key) - 1

\* Tst::visit_neighbor_values
Tst_visit_neighbor_values(self, key, dist) ==
    visit_neighbor_values_r(self.root, NextLabel(key), NextTail(key), TailLen(key), dist)

\* Tst::visit_crossword_values
Tst_visit_crossword_values(self, key, joker) ==
    IF key = <<>> THEN <<>>
    ELSE visit_crossword_values_r(self.root, Head(key), Tail(key), joker)

\* The mutable visitors: the callback is |s| *s = x, and each is modelled by the
\* link it leaves.  A &mut Link inside the tree is the path that leads to it.

\* find_complete_root_r_mut: the path from link to the link it returns
RECURSIVE find_complete_root_r_mut(_, _, _)
find_complete_root_r_mut(link, label, key_tail) ==
    IF link = None THEN <<>>
    ELSE LET node == link[1]
         IN  IF label < node.label
             THEN <<"left">> \o find_complete_root_r_mut(node.left, label, key_tail)
             ELSE IF label > node.label
             THEN <<"right">> \o find_complete_root_r_mut(node.right, label, key_tail)
             ELSE IF key_tail = <<>> THEN <<"middle">>
             ELSE <<"middle">> \o find_complete_root_r_mut(node.middle, Head(key_tail),
                                                          Tail(key_tail))

\* visit_values_r_mut
RECURSIVE visit_values_r_mut(_, _)
visit_values_r_mut(link, x) ==
    IF link = None THEN link
    ELSE LET node == link[1]
         IN  Some([label |-> node.label,
                   value |-> IF node.value # None THEN Some(x) ELSE None,
                   left |-> visit_values_r_mut(node.left, x),
                   middle |-> visit_values_r_mut(node.middle, x),
                   right |-> visit_values_r_mut(node.right, x)])

\* visit_complete_values_r_mut with a fault: the middle link is not visited
visit_complete_values_r_mut_flat(link, x) ==
    IF link = None THEN link
    ELSE LET node == link[1]
         IN  Some([label |-> node.label,
                   value |-> IF node.value # None THEN Some(x) ELSE None,
                   left |-> visit_values_r_mut(node.left, x),
                   middle |-> node.middle,
                   right |-> visit_values_r_mut(node.right, x)])

\* visit_complete_values_r_mut
visit_complete_values_r_mut(link, x) ==
    IF link = None THEN link
    ELSE LET node == link[1]
         IN  Some([label |-> node.label,
                   value |-> IF node.value # None THEN Some(x) ELSE None,
                   left |-> visit_values_r_mut(node.left, x),
                   middle |-> visit_values_r_mut(node.middle, x),
                   right |-> visit_values_r_mut(node.right, x)])

\* the tree under link after the link at the end of a path was visited
RECURSIVE VisitedAt(_, _, _)
VisitedAt(link, path, x) ==
    IF path = <<>> THEN visit_complete_values_r_mut(link, x)
    ELSE LET node == link[1]
         IN  Some([node EXCEPT ![Head(path)] = VisitedAt(@, Tail(path), x)])

\* visit_values_r_mut: the values its callback is handed, in the order of the calls
RECURSIVE visit_values_r_mut_calls(_)
visit_values_r_mut_calls(link) ==
    IF link = None THEN <<>>
    ELSE LET node == link[1]
         IN  visit_values_r_mut_calls(node.left) \o node.value
                \o visit_values_r_mut_calls(node.middle)
                \o visit_values_r_mut_calls(node.right)

\* visit_complete_values_r_mut: the values its callback is handed, in the order of the calls
visit_complete_values_r_mut_calls(link) ==
    IF link = None THEN <<>>
    ELSE LET node == link[1]
         IN  visit_values_r_mut_calls(node.left) \o node.value
                \o visit_values_r_mut_calls(node.middle)
                \o visit_values_r_mut_calls(node.right)

\* the calls made when the link at the end of a path is visited
RECURSIVE CallsAt(_, _)
CallsAt(link, path) ==
    IF path = <<>> THEN visit_complete_values_r_mut_calls(link)
    ELSE CallsAt(link[1][Head(path)], Tail(path))

\* Tst::visit_complete_values_mut: the values its callback is handed, in the order of the calls
Tst_visit_complete_values_mut_calls(self, key) ==
    IF key = <<>> THEN visit_values_r_mut_calls(self.root)
    ELSE CallsAt(self.root, find_complete_root_r_mut(self.root, Head(key), Tail(key)))

\* Tst::visit_complete_values_mut with the callback |s| *s = x: the tree it leaves
Tst_visit_complete_values_mut(self, key, x) ==
    IF key = <<>> THEN [self EXCEPT !.root = visit_values_r_mut(@, x)]
    ELSE [self EXCEPT !.root =
             VisitedAt(@, find_complete_root_r_mut(@, Head(key), Tail(key)), x)]

\* ---------------------------------------------------------- the iterators
\* A frame of todo_i / todo_j holds a reference to a node: the path from the link
\* the iterator was built on.  The top of a Vec is the end of the sequence.

\* the node a reference points to
RECURSIVE Deref(_, _)
Deref(link, path) ==
    IF path = <<>> THEN link[1]
    ELSE LET node == link[1]
         IN  Deref(CASE Head(path) = "left" -> node.left
                     [] Head(path) = "middle" -> node.middle
                     [] Head(path) = "right" -> node.right,
                   Tail(path))

\* callback(value) with the callback |s| *s = x, on the value a &mut T points to
RECURSIVE WriteAt(_, _, _)
WriteAt(link, path, x) ==
    LET node == link[1]
    IN  IF path = <<>> THEN Some([node EXCEPT !.value = Some(x)])
        ELSE Some([node EXCEPT ![Head(path)] = WriteAt(@, Tail(path), x)])

\* visit_neighbor_values_r_mut with the callback |s| *s = x: the link it leaves
RECURSIVE visit_neighbor_values_r_mut(_, _, _, _, _, _)
visit_neighbor_values_r_mut(link, label, key_tail, tail_len, range, x) ==
    IF range = 0
    THEN IF label # None
         THEN LET value == get_r_mut(link, label[1], key_tail)
              IN  IF value # None THEN WriteAt(link, value[1], x) ELSE link
         ELSE link
    ELSE IF link = None THEN link
    ELSE LET node == link[1]
             label_tmp == node.label
             new_range == IF label # None /\ label[1] = label_tmp THEN range ELSE range - 1
             new_len == IF tail_len > 0 THEN tail_len - 1 ELSE tail_len
         IN  Some([label |-> node.label,
                   value |-> IF node.value # None /\ tail_len <= new_range
                             THEN Some(x) ELSE node.value,
                   left |-> visit_neighbor_values_r_mut(node.left, label, key_tail,
                                                        tail_len, range, x),
                   middle |-> visit_neighbor_values_r_mut(node.middle, NextLabel(key_tail),
                                                          NextTail(key_tail), new_len,
                                                          new_range, x),
                   right |-> visit_neighbor_values_r_mut(node.right, label, key_tail,
                                                         tail_len, range, x)])

\* visit_neighbor_values_r_mut: the values its callback is handed, in the order of
\* the calls
RECURSIVE visit_neighbor_values_r_mut_calls(_, _, _, _, _)
visit_neighbor_values_r_mut_calls(link, label, key_tail, tail_len, range) ==
    IF range = 0
    THEN IF label # None
         THEN LET value == get_r_mut(link, label[1], key_tail)
              IN  IF value # None THEN Deref(link, value[1]).value ELSE <<>>
         ELSE <<>>
    ELSE IF link = None THEN <<>>
    ELSE LET node == link[1]
             label_tmp == node.label
             new_range == IF label # None /\ label[1] = label_tmp THEN range ELSE range - 1
             new_len == IF tail_len > 0 THEN tail_len - 1 ELSE tail_len
         IN  visit_neighbor_values_r_mut_calls(node.left, label, key_tail, tail_len, range)
             \o (IF node.value # None /\ tail_len <= new_range THEN node.value ELSE <<>>)
             \o visit_neighbor_values_r_mut_calls(node.middle, NextLabel(key_tail),
                                                  NextTail(key_tail), new_len, new_range)
             \o visit_neighbor_values_r_mut_calls(node.right, label, key_tail, tail_len, range)

\* visit_crossword_values_r_mut with a fault: the callback is also called on the
\* values met on the way down the middle links
RECURSIVE visit_crossword_values_r_mut_eager(_, _, _, _, _)
visit_crossword_values_r_mut_eager(link, label, key_tail, joker, x) ==
    IF link = None THEN link
    ELSE LET node == link[1]
             on_path == label = joker \/ label = node.label
         IN  Some([label |-> node.label,
                   value |-> IF on_path /\ node.value # None THEN Some(x) ELSE node.value,
                   left |-> IF label = joker \/ label < node.label
                            THEN visit_crossword_values_r_mut_eager(node.left, label, key_tail,
                                                                    joker, x)
                            ELSE node.left,
                   middle |-> IF on_path /\ key_tail # <<>>
                              THEN visit_crossword_values_r_mut_eager(node.middle, Head(key_tail),
                                                                      Tail(key_tail), joker, x)
                              ELSE node.middle,
                   right |-> IF label = joker \/ label > node.label
                             THEN visit_crossword_values_r_mut_eager(node.right, label, key_tail,
                                                                     joker, x)
                             ELSE node.right])

\* visit_crossword_values_r_mut with the callback |s| *s = x: the link it leaves
RECURSIVE visit_crossword_values_r_mut(_, _, _, _, _)
visit_crossword_values_r_mut(link, label, key_tail, joker, x) ==
    IF link = None THEN link
    ELSE LET node == link[1]
             on_path == label = joker \/ label = node.label
         IN  Some([label |-> node.label,
                   value |-> IF on_path /\ key_tail = <<>> /\ node.value # None
                             THEN Some(x) ELSE node.value,
                   left |-> IF label = joker \/ label < node.label
                            THEN visit_crossword_values_r_mut(node.left, label, key_tail,
                                                              joker, x)
                            ELSE node.left,
                   middle |-> IF on_path /\ key_tail # <<>>
                              THEN visit_crossword_values_r_mut(node.middle, Head(key_tail),
                                                                Tail(key_tail), joker, x)
                              ELSE node.middle,
                   right |-> IF label = joker \/ label > node.label
                             THEN visit_crossword_values_r_mut(node.right, label, key_tail,
                                                               joker, x)
                             ELSE node.right])

\* visit_crossword_values_r_mut: the values its callback is handed, in the order of
\* the calls
RECURSIVE visit_crossword_values_r_mut_calls(_, _, _, _)
visit_crossword_values_r_mut_calls(link, label, key_tail, joker) ==
    IF link = None THEN <<>>
    ELSE LET node == link[1]
         IN  (IF label = joker \/ label < node.label
              THEN visit_crossword_values_r_mut_calls(node.left, label, key_tail, joker)
              ELSE <<>>)
             \o (IF label = joker \/ label = node.label
                 THEN IF key_tail = <<>> THEN node.value
                      ELSE visit_crossword_values_r_mut_calls(node.middle, Head(key_tail),
                                                              Tail(key_tail), joker)
                 ELSE <<>>)
             \o (IF label = joker \/ label > node.label
                 THEN visit_crossword_values_r_mut_calls(node.right, label, key_tail, joker)
                 ELSE <<>>)

\* Tst::visit_values_mut with the callback |s| *s = x: the tree it leaves, and the
\* values its callback is handed
Tst_visit_values_mut(self, x) == [self EXCEPT !.root = visit_values_r_mut(@, x)]
Tst_visit_values_mut_calls(self) == visit_values_r_mut_calls(self.root)

\* Tst::visit_neighbor_values_mut, likewise
Tst_visit_neighbor_values_mut(self, key, dist, x) ==
    [self EXCEPT !.root = visit_neighbor_values_r_mut(@, NextLabel(key), NextTail(key),
                                                      TailLen(key), dist, x)]
Tst_visit_neighbor_values_mut_calls(self, key, dist) ==
    visit_neighbor_values_r_mut_calls(self.root, NextLabel(key), NextTail(key),
                                      TailLen(key), dist)

\* Tst::visit_crossword_values_mut, likewise
Tst_visit_crossword_values_mut(self, key, joker, x) ==
    IF key = <<>> THEN self
    ELSE [self EXCEPT !.root = visit_crossword_values_r_mut(@, Head(key), Tail(key), joker, x)]
Tst_visit_crossword_values_mut_calls(self, key, joker) ==
    IF key = <<>> THEN <<>>
    ELSE visit_crossword_values_r_mut_calls(self.root, Head(key), Tail(key), joker)

\* Vec::pop with a fault: the element stays on the Vec
Pop_keeping(todo) ==
    todo

\* Vec::pop: the element popped, and the Vec left
Top(todo) == todo[Len(todo)]
Pop(todo) ==
    SubSeq(todo, 1, Len(todo) - 1)

\* if let Some(ref child) = node.<dir> { todo.push((child, ..)) }, for a frame
\* whose other fields are those of `frame`
PushChild(node, dir, frame) ==
    LET link == CASE dir = "left" -> node.left
                  [] dir = "middle" -> node.middle
                  [] dir = "right" -> node.right
    IN  IF link # None THEN <<[frame EXCEPT !.node = Append(@, dir)]>> ELSE <<>>

\* One turn of an iterator's `while let Some(..) = todo.pop()` loop ends the call
\* (break, or the stack is empty) with what the call returns, or goes round again.
Break(it, found) == [it |-> it, found |-> found, done |-> TRUE]
Continue(it) == [it |-> it, found |-> None, done |-> FALSE]

\* TstIterator::new_from_root with a fault: the forward stack starts at Visit
TstIterator_new_from_root_at_visit(root) ==
    [todo_i |-> IF root # None THEN <<[node |-> <<>>, action |-> "Visit"]>> ELSE <<>>,
     last_i |-> None,
     todo_j |-> IF root # None THEN <<[node |-> <<>>, action |-> "GoRight"]>> ELSE <<>>,
     last_j |-> None]

\* TstIterator::new_from_root
TstIterator_new_from_root(root) ==
    [todo_i |-> IF root # None THEN <<[node |-> <<>>, action |-> "GoLeft"]>> ELSE <<>>,
     last_i |-> None,
     todo_j |-> IF root # None THEN <<[node |-> <<>>, action |-> "GoRight"]>> ELSE <<>>,
     last_j |-> None]

\* TstIterator::next with a fault: Visit does not look at last_j
TstIterator_next_step_no_convergence(root, it) ==
    IF it.todo_i = <<>> THEN Break(it, None)
    ELSE LET frame == Top(it.todo_i)
             rest == Pop(it.todo_i)
             node == Deref(root, frame.node)
         IN  CASE frame.action = "GoLeft" ->
                    Continue([it EXCEPT !.todo_i =
                        rest \o <<[frame EXCEPT !.action = "Visit"]>>
                             \o PushChild(node, "left", [frame EXCEPT !.action = "GoLeft"])])
               [] frame.action = "Visit" ->
                    IF node.value # None
                    THEN Break([it EXCEPT !.todo_i = rest \o <<[frame EXCEPT !.action = "GoMiddle"]>>,
                                            !.last_i = Some(frame.node)], node.value)
                    ELSE Continue([it EXCEPT !.todo_i =
                             rest \o <<[frame EXCEPT !.action = "GoMiddle"]>>])
               [] frame.action = "GoMiddle" ->
                    Continue([it EXCEPT !.todo_i =
                        rest \o <<[frame EXCEPT !.action = "GoRight"]>>
                             \o PushChild(node, "middle", [frame EXCEPT !.action = "GoLeft"])])
               [] frame.action = "GoRight" ->
                    Continue([it EXCEPT !.todo_i =
                        rest \o PushChild(node, "right", [frame EXCEPT !.action = "GoLeft"])])

\* TstIterator::next, one turn of its loop
TstIterator_next_step(root, it) ==
    IF it.todo_i = <<>> THEN Break(it, None)
    ELSE LET frame == Top(it.todo_i)
             rest == Pop(it.todo_i)
             node == Deref(root, frame.node)
         IN  CASE frame.action = "GoLeft" ->
                    Continue([it EXCEPT !.todo_i =
                        rest \o <<[frame EXCEPT !.action = "Visit"]>>
                             \o PushChild(node, "left", [frame EXCEPT !.action = "GoLeft"])])
               [] frame.action = "Visit" ->
                    IF node.value # None /\ it.last_j = Some(frame.node)
                    THEN Break([it EXCEPT !.todo_i = <<>>, !.todo_j = <<>>], None)
                    ELSE IF node.value # None
                    THEN Break([it EXCEPT !.todo_i = rest \o <<[frame EXCEPT !.action = "GoMiddle"]>>,
                                            !.last_i = Some(frame.node)], node.value)
                    ELSE Continue([it EXCEPT !.todo_i =
                             rest \o <<[frame EXCEPT !.action = "GoMiddle"]>>])
               [] frame.action = "GoMiddle" ->
                    Continue([it EXCEPT !.todo_i =
                        rest \o <<[frame EXCEPT !.action = "GoRight"]>>
                             \o PushChild(node, "middle", [frame EXCEPT !.action = "GoLeft"])])
               [] frame.action = "GoRight" ->
                    Continue([it EXCEPT !.todo_i =
                        rest \o PushChild(node, "right", [frame EXCEPT !.action = "GoLeft"])])

\* TstIterator::next_back with a fault: the value is visited before the middle link
TstIterator_next_back_step_visit_first(root, it) ==
    IF it.todo_j = <<>> THEN Break(it, None)
    ELSE LET frame == Top(it.todo_j)
             rest == Pop(it.todo_j)
             node == Deref(root, frame.node)
         IN  CASE frame.action = "GoRight" ->
                    Continue([it EXCEPT !.todo_j =
                        rest \o <<[frame EXCEPT !.action = "Visit"]>>
                             \o PushChild(node, "right", [frame EXCEPT !.action = "GoRight"])])
               [] frame.action = "Visit" ->
                    IF node.value # None /\ it.last_i = Some(frame.node)
                    THEN Break([it EXCEPT !.todo_i = <<>>, !.todo_j = <<>>], None)
                    ELSE IF node.value # None
                    THEN Break([it EXCEPT !.todo_j = rest \o <<[frame EXCEPT !.action = "GoMiddle"]>>,
                                            !.last_j = Some(frame.node)], node.value)
                    ELSE Continue([it EXCEPT !.todo_j =
                             rest \o <<[frame EXCEPT !.action = "GoMiddle"]>>])
               [] frame.action = "GoMiddle" ->
                    Continue([it EXCEPT !.todo_j =
                        rest \o <<[frame EXCEPT !.action = "GoLeft"]>>
                             \o PushChild(node, "middle", [frame EXCEPT !.action = "GoRight"])])
               [] frame.action = "GoLeft" ->
                    Continue([it EXCEPT !.todo_j =
                        rest \o PushChild(node, "left", [frame EXCEPT !.action = "GoRight"])])

\* TstIterator::next_back, one turn of its loop
TstIterator_next_back_step(root, it) ==
    IF it.todo_j = <<>> THEN Break(it, None)
    ELSE LET frame == Top(it.todo_j)
             rest == Pop(it.todo_j)
             node == Deref(root, frame.node)
         IN  CASE frame.action = "GoRight" ->
                    Continue([it EXCEPT !.todo_j =
                        rest \o <<[frame EXCEPT !.action = "GoMiddle"]>>
                             \o PushChild(node, "right", [frame EXCEPT !.action = "GoRight"])])
               [] frame.action = "Visit" ->
                    IF node.value # None /\ it.last_i = Some(frame.node)
                    THEN Break([it EXCEPT !.todo_i = <<>>, !.todo_j = <<>>], None)
                    ELSE IF node.value # None
                    THEN Break([it EXCEPT !.todo_j = rest \o <<[frame EXCEPT !.action = "GoLeft"]>>,
                                            !.last_j = Some(frame.node)], node.value)
                    ELSE Continue([it EXCEPT !.todo_j =
                             rest \o <<[frame EXCEPT !.action = "GoLeft"]>>])
               [] frame.action = "GoMiddle" ->
                    Continue([it EXCEPT !.todo_j =
                        rest \o <<[frame EXCEPT !.action = "Visit"]>>
                             \o PushChild(node, "middle", [frame EXCEPT !.action = "GoRight"])])
               [] frame.action = "GoLeft" ->
                    Continue([it EXCEPT !.todo_j =
                        rest \o PushChild(node, "left", [frame EXCEPT !.action = "GoRight"])])

\* TstCompleteIterator::new: the link its inner TstIterator walks
CompleteRoot_dropping_empty(tree, key_prefix) ==
    IF key_prefix = <<>> THEN None
    ELSE find_complete_root_r(tree.root, Head(key_prefix), Tail(key_prefix))

CompleteRoot(tree, key_prefix) ==
    IF key_prefix = <<>> THEN tree.root
    ELSE find_complete_root_r(tree.root, Head(key_prefix), Tail(key_prefix))

\* TstNeighborIterator::new with a fault: the backward stack starts at GoMiddle
TstNeighborIterator_new_back_at_middle(tree, key, range) ==
    LET frame == [node |-> <<>>, action |-> "GoLeft", label |-> NextLabel(key),
                  key_tail |-> NextTail(key), tail_len |-> TailLen(key), range |-> range]
    IN  [todo_i |-> IF tree.root # None THEN <<frame>> ELSE <<>>,
         last_i |-> None,
         todo_j |-> IF tree.root # None THEN <<[frame EXCEPT !.action = "GoMiddle"]>> ELSE <<>>,
         last_j |-> None]

\* TstNeighborIterator::new; a frame is (node, action, label, key_tail, tail_len, range)
TstNeighborIterator_new(tree, key, range) ==
    LET frame == [node |-> <<>>, action |-> "GoLeft", label |-> NextLabel(key),
                  key_tail |-> NextTail(key), tail_len |-> TailLen(key), range |-> range]
    IN  [todo_i |-> IF tree.root # None THEN <<frame>> ELSE <<>>,
         last_i |-> None,
         todo_j |-> IF tree.root # None THEN <<[frame EXCEPT !.action = "GoRight"]>> ELSE <<>>,
         last_j |-> None]

\* the frame pushed for node.middle by GoMiddle, when range >= delta
NeighborMiddle(node, frame, action) ==
    IF frame.range >= Delta(frame.label, node)
    THEN PushChild(node, "middle",
             [frame EXCEPT !.action = action,
                           !.label = NextLabel(frame.key_tail),
                           !.key_tail = NextTail(frame.key_tail),
                           !.tail_len = IF @ > 0 THEN @ - 1 ELSE @,
                           !.range = @ - Delta(frame.label, node)])
    ELSE <<>>

\* the test made on a node's value by Visit
NeighborAccepts(node, frame) ==
    /\ frame.range >= Delta(frame.label, node)
    /\ frame.tail_len <= frame.range - Delta(frame.label, node)

\* TstNeighborIterator::next, one turn of its loop
TstNeighborIterator_next_step(root, it) ==
    IF it.todo_i = <<>> THEN Break(it, None)
    ELSE LET frame == Top(it.todo_i)
             rest == Pop(it.todo_i)
             node == Deref(root, frame.node)
         IN  CASE frame.action = "GoLeft" ->
                    Continue([it EXCEPT !.todo_i =
                        rest \o <<[frame EXCEPT !.action = "Visit"]>>
                             \o IF frame.label # None /\ frame.range = 0
                                   /\ frame.label[1] >= node.label
                                THEN <<>>
                                ELSE PushChild(node, "left", [frame EXCEPT !.action = "GoLeft"])])
               [] frame.action = "Visit" ->
                    IF node.value # None /\ it.last_j = Some(frame.node)
                    THEN Break([it EXCEPT !.todo_i = <<>>, !.todo_j = <<>>], None)
                    ELSE IF node.value # None /\ NeighborAccepts(node, frame)
                    THEN Break([it EXCEPT !.todo_i = rest \o <<[frame EXCEPT !.action = "GoMiddle"]>>,
                                            !.last_i = Some(frame.node)], node.value)
                    ELSE Continue([it EXCEPT !.todo_i =
                             rest \o <<[frame EXCEPT !.action = "GoMiddle"]>>])
               [] frame.action = "GoMiddle" ->
                    Continue([it EXCEPT !.todo_i =
                        rest \o <<[frame EXCEPT !.action = "GoRight"]>>
                             \o NeighborMiddle(node, frame, "GoLeft")])
               [] frame.action = "GoRight" ->
                    Continue([it EXCEPT !.todo_i =
                        rest \o IF frame.label # None /\ frame.range = 0
                                   /\ frame.label[1] <= node.label
                                THEN <<>>
                                ELSE PushChild(node, "right", [frame EXCEPT !.action = "GoLeft"])])

\* TstNeighborIterator::next_back, one turn of its loop
TstNeighborIterator_next_back_step(root, it) ==
    IF it.todo_j = <<>> THEN Break(it, None)
    ELSE LET frame == Top(it.todo_j)
             rest == Pop(it.todo_j)
             node == Deref(root, frame.node)
         IN  CASE frame.action = "GoRight" ->
                    Continue([it EXCEPT !.todo_j =
                        rest \o <<[frame EXCEPT !.action = "GoMiddle"]>>
                             \o IF frame.label # None /\ frame.range = 0
                                   /\ frame.label[1] <= node.label
                                THEN <<>>
                                ELSE PushChild(node, "right", [frame EXCEPT !.action = "GoRight"])])
               [] frame.action = "Visit" ->
                    IF node.value # None /\ it.last_i = Some(frame.node)
                    THEN Break([it EXCEPT !.todo_i = <<>>, !.todo_j = <<>>], None)
                    ELSE IF node.value # None /\ NeighborAccepts(node, frame)
                    THEN Break([it EXCEPT !.todo_j = rest \o <<[frame EXCEPT !.action = "GoLeft"]>>,
                                            !.last_j = Some(frame.node)], node.value)
                    ELSE Continue([it EXCEPT !.todo_j =
                             rest \o <<[frame EXCEPT !.action = "GoLeft"]>>])
               [] frame.action = "GoMiddle" ->
                    Continue([it EXCEPT !.todo_j =
                        rest \o <<[frame EXCEPT !.action = "Visit"]>>
                             \o NeighborMiddle(node, frame, "GoRight")])
               [] frame.action = "GoLeft" ->
                    Continue([it EXCEPT !.todo_j =
                        rest \o IF frame.label # None /\ frame.range = 0
                                   /\ frame.label[1] >= node.label
                                THEN <<>>
                                ELSE PushChild(node, "left", [frame EXCEPT !.action = "GoRight"])])

\* TstCrosswordIterator::new; a frame is (node, action, label, key_tail, tail_len)
TstCrosswordIterator_new(tree, key, joker) ==
    LET frame == [node |-> <<>>, action |-> "GoLeft", label |-> Head(key),
                  key_tail |-> Tail(key), tail_len |-> str_len(key) - 1]
    IN  [todo_i |-> IF tree.root # None /\ key # <<>> THEN <<frame>> ELSE <<>>,
         last_i |-> None,
         todo_j |-> IF tree.root # None /\ key # <<>>
                    THEN <<[frame EXCEPT !.action = "GoRight"]>> ELSE <<>>,
         last_j |-> None,
         joker |-> joker]

\* the frame pushed for node.middle by GoMiddle
CrosswordMiddle(node, frame, joker, action) ==
    IF (frame.label = joker \/ frame.label = node.label) /\ frame.key_tail # <<>>
    THEN PushChild(node, "middle",
             [frame EXCEPT !.action = action,
                           !.label = Head(frame.key_tail),
                           !.key_tail = Tail(frame.key_tail),
                           !.tail_len = @ - 1])
    ELSE <<>>

\* the test made on a node's value by Visit
CrosswordAccepts(node, frame, joker) ==
    frame.tail_len = 0 /\ (frame.label = joker \/ frame.label = node.label)

\* TstCrosswordIterator::next, one turn of its loop
TstCrosswordIterator_next_step(root, it) ==
    IF it.todo_i = <<>> THEN Break(it, None)
    ELSE LET frame == Top(it.todo_i)
             rest == Pop(it.todo_i)
             node == Deref(root, frame.node)
         IN  CASE frame.action = "GoLeft" ->
                    Continue([it EXCEPT !.todo_i =
                        rest \o <<[frame EXCEPT !.action = "Visit"]>>
                             \o IF frame.label = it.joker \/ frame.label < node.label
                                THEN PushChild(node, "left", [frame EXCEPT !.action = "GoLeft"])
                                ELSE <<>>])
               [] frame.action = "Visit" ->
                    IF node.value # None /\ it.last_j = Some(frame.node)
                    THEN Break([it EXCEPT !.todo_i = <<>>, !.todo_j = <<>>], None)
                    ELSE IF node.value # None /\ CrosswordAccepts(node, frame, it.joker)
                    THEN Break([it EXCEPT !.todo_i = rest \o <<[frame EXCEPT !.action = "GoMiddle"]>>,
                                            !.last_i = Some(frame.node)], node.value)
                    ELSE Continue([it EXCEPT !.todo_i =
                             rest \o <<[frame EXCEPT !.action = "GoMiddle"]>>])
               [] frame.action = "GoMiddle" ->
                    Continue([it EXCEPT !.todo_i =
                        rest \o <<[frame EXCEPT !.action = "GoRight"]>>
                             \o CrosswordMiddle(node, frame, it.joker, "GoLeft")])
               [] frame.action = "GoRight" ->
                    Continue([it EXCEPT !.todo_i =
                        rest \o IF frame.label = it.joker \/ frame.label > node.label
                                THEN PushChild(node, "right", [frame EXCEPT !.action = "GoLeft"])
                                ELSE <<>>])

\* TstCrosswordIterator::next_back, one turn of its loop
TstCrosswordIterator_next_back_step(root, it) ==
    IF it.todo_j = <<>> THEN Break(it, None)
    ELSE LET frame == Top(it.todo_j)
             rest == Pop(it.todo_j)
             node == Deref(root, frame.node)
         IN  CASE frame.action = "GoRight" ->
                    Continue([it EXCEPT !.todo_j =
                        rest \o <<[frame EXCEPT !.action = "GoMiddle"]>>
                             \o IF frame.label = it.joker \/ frame.label > node.label
                                THEN PushChild(node, "right", [frame EXCEPT !.action = "GoRight"])
                                ELSE <<>>])
               [] frame.action = "Visit" ->
                    IF node.value # None /\ it.last_i = Some(frame.node)
                    THEN Break([it EXCEPT !.todo_i = <<>>, !.todo_j = <<>>], None)
                    ELSE IF node.value # None /\ CrosswordAccepts(node, frame, it.joker)
                    THEN Break([it EXCEPT !.todo_j = rest \o <<[frame EXCEPT !.action = "GoLeft"]>>,
                                            !.last_j = Some(frame.node)], node.value)
                    ELSE Continue([it EXCEPT !.todo_j =
                             rest \o <<[frame EXCEPT !.action = "GoLeft"]>>])
               [] frame.action = "GoMiddle" ->
                    Continue([it EXCEPT !.todo_j =
                        rest \o <<[frame EXCEPT !.action = "Visit"]>>
                             \o CrosswordMiddle(node, frame, it.joker, "GoRight")])
               [] frame.action = "GoLeft" ->
                    Continue([it EXCEPT !.todo_j =
                        rest \o IF frame.label = it.joker \/ frame.label < node.label
                                THEN PushChild(node, "left", [frame EXCEPT !.action = "GoRight"])
                                ELSE <<>>])

\* the body of the loop of one of the six next / next_back functions
LoopBody(which, root, it) ==
    CASE which = "TstIterator::next" -> TstIterator_next_step(root, it)
      [] which = "TstIterator::next_back" -> TstIterator_next_back_step(root, it)
      [] which = "TstNeighborIterator::next" -> TstNeighborIterator_next_step(root, it)
      [] which = "TstNeighborIterator::next_back" -> TstNeighborIterator_next_back_step(root, it)
      [] which = "TstCrosswordIterator::next" -> TstCrosswordIterator_next_step(root, it)
      [] which = "TstCrosswordIterator::next_back" -> TstCrosswordIterator_next_back_step(root, it)

\* A frame is pushed once for a node and popped once for each of its 4 actions, and
\* one more pop finds the stack empty: the turns a call can take, if it terminates.
LoopBound(root) == 4 * NodeCount(root) + 1

\* the loop: at most `turns` turns from loop state s, stopping at the first break
RECURSIVE WhileLet(_, _, _, _)
WhileLet(which, root, s, turns) ==
    IF s.done \/ turns = 0 THEN s
    ELSE IF turns = 1 THEN LoopBody(which, root, s.it)
    ELSE WhileLet(which, root, WhileLet(which, root, s, turns \div 2), turns - turns \div 2)

\* the six functions: the iterator after the call, the value found, and whether
\* the loop came to its end within LoopBound turns
TstIterator_next(root, it) ==
    WhileLet("TstIterator::next", root, Continue(it), LoopBound(root))
TstIterator_next_back(root, it) ==
    WhileLet("TstIterator::next_back", root, Continue(it), LoopBound(root))
TstNeighborIterator_next(root, it) ==
    WhileLet("TstNeighborIterator::next", root, Continue(it), LoopBound(root))
TstNeighborIterator_next_back(root, it) ==
    WhileLet("TstNeighborIterator::next_back", root, Continue(it), LoopBound(root))
TstCrosswordIterator_next(root, it) ==
    WhileLet("TstCrosswordIterator::next", root, Continue(it), LoopBound(root))
TstCrosswordIterator_next_back(root, it) ==
    WhileLet("TstCrosswordIterator::next_back", root, Continue(it), LoopBound(root))

\* gen_it_path! with a fault: the label of every frame is pushed
gen_it_path_every_frame(root, todo_x, a1, a2) ==
    [i \in 1..Len(todo_x) |-> Deref(root, todo_x[i].node).label]

\* gen_it_path!: the labels of the frames of todo_x whose action is a1 or a2
gen_it_path(root, todo_x, a1, a2) ==
    LET pushed == SelectSeq(todo_x, LAMBDA todo : todo.action = a1 \/ todo.action = a2)
    IN  [i \in 1..Len(pushed) |-> Deref(root, pushed[i].node).label]

\* current_key and current_key_back of the four iterators; TstCompleteIterator
\* puts its prefix in front, the others have an empty one
current_key(prefix, root, it) == prefix \o gen_it_path(root, it.todo_i, "GoMiddle", "GoRight")
current_key_back(prefix, root, it) == prefix \o gen_it_path(root, it.todo_j, "Visit", "GoLeft")

\* ------------------------------------------------------------------- state
VARIABLES
    tst,      \* the Tst: its root link and its count
    model,    \* for every key, the value of the latest insert not removed since
    last,     \* the latest call on the tree: its name, what it returned, and for
              \* insert and remove whether the key was empty
    iter      \* the iterator borrowing the tree, if any: its fields, the values next
              \* (out_i) and next_back (out_j) returned, how often each returned None,
              \* whether a value was returned after a None (late), whether a call
              \* ran past LoopBound turns (stuck), and what current_key (key_i) and
              \* current_key_back (key_j) returned right after the latest value

vars == <<tst, model, last, iter>>

\* no iterator borrows the tree
NoIter == [kind |-> "none"]

EmptyModel == [k \in Keys \ {<<>>} |-> None]

Init ==
    /\ tst = Tst_new
    /\ model = EmptyModel
    /\ last = [op |-> "new", ret |-> None]
    /\ iter = NoIter

\* tst.insert(key, value)
Insert(key, value) ==
    LET r == Tst_insert(tst, key, value)
    IN  /\ iter = NoIter
        /\ NodeCount(r.tst.root) <= MaxNodes
        /\ tst' = r.tst
        /\ model' = IF key = <<>> THEN model ELSE [model EXCEPT ![key] = Some(value)]
        /\ last' = [op |-> "insert", ret |-> r.ret, empty |-> key = <<>>]
        /\ UNCHANGED iter

\* tst.remove(key)
Remove(key) ==
    LET r == Tst_remove(tst, key)
    IN  /\ iter = NoIter
        /\ tst' = r.tst
        /\ model' = IF key = <<>> THEN model ELSE [model EXCEPT ![key] = None]
        /\ last' = [op |-> "remove", ret |-> r.ret, empty |-> key = <<>>]
        /\ UNCHANGED iter

\* tst.clear()
Clear ==
    /\ iter = NoIter
    /\ tst' = Tst_clear(tst)
    /\ model' = EmptyModel
    /\ last' = [op |-> "clear", ret |-> None, len |-> Tst_len(tst)]
    /\ UNCHANGED iter

\* p is the beginning of k
IsPrefix(p, k) == Len(p) <= Len(k) /\ SubSeq(k, 1, Len(p)) = p

\* tst.visit_complete_values_mut(prefix, |s| *s = x)
VisitCompleteValuesMut(prefix, x) ==
    /\ iter = NoIter
    /\ tst' = Tst_visit_complete_values_mut(tst, prefix, x)
    /\ model' = [k \in DOMAIN model |->
                    IF model[k] # None /\ IsPrefix(prefix, k) /\ Len(k) > Len(prefix)
                    THEN Some(x) ELSE model[k]]
    /\ last' = [op |-> "visit_complete_values_mut", ret |-> None, key |-> prefix, x |-> x]
    /\ UNCHANGED iter

\* an iterator just built: nothing produced, no call made
Fresh(kind, key, arg, root, it) ==
    [kind |-> kind, key |-> key, arg |-> arg, root |-> root, it |-> it,
     out_i |-> <<>>, out_j |-> <<>>, nones_i |-> 0, nones_j |-> 0, late |-> FALSE,
     stuck |-> FALSE, key_i |-> <<>>, key_j |-> <<>>]

\* tst.iter()
Iter ==
    /\ iter = NoIter
    /\ iter' = Fresh("iter", <<>>, 0, tst.root, TstIterator_new_from_root(tst.root))
    /\ last' = [op |-> "iter", ret |-> None]
    /\ UNCHANGED <<tst, model>>

\* tst.iter_complete(prefix)
IterComplete(prefix) ==
    /\ iter = NoIter
    /\ iter' = Fresh("complete", prefix, 0, CompleteRoot(tst, prefix),
                     TstIterator_new_from_root(CompleteRoot(tst, prefix)))
    /\ last' = [op |-> "iter_complete", ret |-> None]
    /\ UNCHANGED <<tst, model>>

\* tst.iter_neighbor(key, range)
IterNeighbor(key, range) ==
    /\ iter = NoIter
    /\ iter' = Fresh("neighbor", key, range, tst.root, TstNeighborIterator_new(tst, key, range))
    /\ last' = [op |-> "iter_neighbor", ret |-> None]
    /\ UNCHANGED <<tst, model>>

\* tst.iter_crossword(key, joker)
IterCrossword(key, joker) ==
    /\ iter = NoIter
    /\ iter' = Fresh("crossword", key, joker, tst.root, TstCrosswordIterator_new(tst, key, joker))
    /\ last' = [op |-> "iter_crossword", ret |-> None]
    /\ UNCHANGED <<tst, model>>

\* the prefix field of a TstCompleteIterator
Prefix(i) == IF i.kind = "complete" THEN i.key ELSE <<>>

\* the iterator after a call that returned r.found, and what current_key (after
\* next) or current_key_back (after next_back) gave right after a value
Called(r, front) ==
    [iter EXCEPT !.it = r.it,
                 !.out_i = IF front THEN @ \o r.found ELSE @,
                 !.out_j = IF front THEN @ ELSE @ \o r.found,
                 !.nones_i = IF front /\ r.found = None THEN @ + 1 ELSE @,
                 !.nones_j = IF ~front /\ r.found = None THEN @ + 1 ELSE @,
                 !.late = @ \/ (r.found # None /\ iter.nones_i + iter.nones_j > 0),
                 !.stuck = @ \/ ~r.done,
                 !.key_i = IF front /\ r.found # None
                           THEN current_key(Prefix(iter), iter.root, r.it) ELSE @,
                 !.key_j = IF ~front /\ r.found # None
                           THEN current_key_back(Prefix(iter), iter.root, r.it) ELSE @]

\* it.next()
IterNext ==
    /\ iter # NoIter
    /\ iter.nones_i + iter.nones_j < MaxNones
    /\ iter' = Called(CASE iter.kind \in {"iter", "complete"} -> TstIterator_next(iter.root, iter.it)
                        [] iter.kind = "neighbor" -> TstNeighborIterator_next(iter.root, iter.it)
                        [] iter.kind = "crossword" -> TstCrosswordIterator_next(iter.root, iter.it),
                      TRUE)
    /\ UNCHANGED <<tst, model, last>>

\* it.next_back()
IterNextBack ==
    /\ iter # NoIter
    /\ iter.nones_i + iter.nones_j < MaxNones
    /\ iter' = Called(CASE iter.kind \in {"iter", "complete"} -> TstIterator_next_back(iter.root, iter.it)
                        [] iter.kind = "neighbor" -> TstNeighborIterator_next_back(iter.root, iter.it)
                        [] iter.kind = "crossword" -> TstCrosswordIterator_next_back(iter.root, iter.it),
                      FALSE)
    /\ UNCHANGED <<tst, model, last>>

\* The tree core: any sequence of insert, remove and clear with any keys and values.
Next ==
    \/ \E key \in Keys, value \in Values : Insert(key, value)
    \/ \E key \in Keys : Remove(key)
    \/ Clear

Spec == Init /\ [][Next]_vars

\* The mutable visit: values are inserted as 1 and overwritten with 2.
NextMut ==
    \/ \E key \in Keys : Insert(key, 1)
    \/ \E key \in Keys : Remove(key)
    \/ Clear
    \/ \E prefix \in Keys : VisitCompleteValuesMut(prefix, 2)

SpecMut == Init /\ [][NextMut]_vars

\* The traversals: every value is its own key, as in the crate's example
\* (map.insert(key, some_value) with some_value = *key); an iterator is built on
\* the tree and stepped from both ends.
NextIter ==
    \/ \E key \in Keys : Insert(key, key)
    \/ \E key \in Keys : Remove(key)
    \/ Clear
    \/ Iter
    \/ \E prefix \in Keys : IterComplete(prefix)
    \/ \E key \in Keys, range \in 0..MaxRange : IterNeighbor(key, range)
    \/ \E key \in Patterns, joker \in Jokers : IterCrossword(key, joker)
    \/ IterNext
    \/ IterNextBack

SpecIter == Init /\ [][NextIter]_vars

\* insert, remove and clear alone, every key holding its own text as value
NextKeyed ==
    \/ \E key \in Keys : Insert(key, key)
    \/ \E key \in Keys : Remove(key)
    \/ Clear

SpecKeyed == Init /\ [][NextKeyed]_vars

\* ------------------------------------------------------------- properties
NonEmptyKeys == Keys \ {<<>>}

\* the keys under which the tree holds a value
StoredKeys(t) == {k \in NonEmptyKeys : Tst_get(t, k) # None}

\* the number of nodes holding a value
RECURSIVE ValueCount(_)
ValueCount(link) ==
    IF link = None THEN 0
    ELSE Len(link[1].value) + ValueCount(link[1].left)
         + ValueCount(link[1].middle) + ValueCount(link[1].right)

\* C1: after any sequence of insert calls get(k) returns the value of the most
\* recent insert(k, _), and absent for a key never inserted.  model[k] is the
\* value of the most recent insert(k, _) not followed by remove(k) or clear, so
\* on the runs made of insert calls alone it is the value the claim names.
C1_GetLatestInsert ==
    \A k \in NonEmptyKeys : Tst_get(tst, k) = model[k]

\* a key was inserted twice, with two values, and another key is stored
C1_Witness ==
    /\ last.op = "insert"
    /\ last.ret # None
    /\ tst.count >= 2
    /\ \E k \in NonEmptyKeys : Tst_get(tst, k) # None /\ Tst_get(tst, k) # last.ret

\* C2: in any reachable tree remove(k) returns what get(k) returned just before
\* the call; afterwards get(k) is absent and get(k2) is unchanged for k2 # k.
C2_RemoveIsGet ==
    \A k \in Keys :
        LET r == Tst_remove(tst, k)
        IN  /\ r.ret = Tst_get(tst, k)
            /\ Tst_get(r.tst, k) = None
            /\ \A k2 \in Keys \ {k} : Tst_get(r.tst, k2) = Tst_get(tst, k2)

\* a remove returned a value and left other keys in the tree
C2_Witness ==
    /\ last.op = "remove"
    /\ last.ret # None
    /\ StoredKeys(tst) # {}
    /\ NodeCount(tst.root) >= 2

\* C3: len() is the number of keys get finds, which is the number of nodes
\* holding a value, and the number of distinct keys inserted and not removed.
C3_LenCountsValues ==
    /\ Tst_len(tst) = Cardinality(StoredKeys(tst))
    /\ Tst_len(tst) = ValueCount(tst.root)
    /\ Tst_len(tst) = Cardinality({k \in NonEmptyKeys : model[k] # None})

\* a stored key was inserted again while two keys are stored
C3_Witness ==
    /\ last.op = "insert"
    /\ last.ret # None
    /\ Tst_len(tst) = 2

\* C4: once every key inserted has been removed the tree is empty: no root, no
\* node, len() = 0 and a full traversal yields nothing.
C4_RoundTripEmpty ==
    (\A k \in NonEmptyKeys : model[k] = None) =>
        /\ tst.root = None
        /\ NodeCount(tst.root) = 0
        /\ Tst_len(tst) = 0
        /\ Tst_visit_values(tst) = <<>>

\* the last key stored has just been removed
C4_Witness ==
    /\ last.op = "remove"
    /\ last.ret # None
    /\ \A k \in NonEmptyKeys : model[k] = None

\* ------------------------------------------------ properties of traversals
\* the order of keys: char by char, a key before any of its extensions
RECURSIVE KeyLess(_, _)
KeyLess(a, b) ==
    IF a = <<>> THEN b # <<>>
    ELSE IF b = <<>> THEN FALSE
    ELSE IF Head(a) # Head(b) THEN Head(a) < Head(b)
    ELSE KeyLess(Tail(a), Tail(b))

\* the keys of a set in strictly ascending order
RECURSIVE Ascending(_)
Ascending(S) ==
    IF S = {} THEN <<>>
    ELSE LET least == CHOOSE x \in S : \A y \in S \ {x} : KeyLess(x, y)
         IN  <<least>> \o Ascending(S \ {least})

\* the values stored under the keys of a set, in ascending key order
InKeyOrder(t, S) ==
    LET keys == Ascending(S) IN [i \in 1..Len(keys) |-> Tst_get(t, keys[i])[1]]

Reverse(seq) == [i \in 1..Len(seq) |-> seq[Len(seq) + 1 - i]]

\* the number of positions at which two keys differ, a position present in
\* only one of them counting as a difference
RECURSIVE Mismatches(_, _)
Mismatches(k, r) ==
    IF k = <<>> THEN Len(r)
    ELSE IF r = <<>> THEN Len(k)
    ELSE (IF Head(k) = Head(r) THEN 0 ELSE 1) + Mismatches(Tail(k), Tail(r))

\* the key has as many chars as the pattern, each the pattern's or under a joker
Matches(k, p, joker) ==
    Len(k) = Len(p) /\ \A i \in 1..Len(p) : p[i] = joker \/ p[i] = k[i]

\* the callbacks of the visitor an iterator corresponds to
VisitorOf(it) ==
    CASE it.kind = "iter" -> Tst_visit_values(tst)
      [] it.kind = "complete" -> Tst_visit_complete_values(tst, it.key)
      [] it.kind = "neighbor" -> Tst_visit_neighbor_values(tst, it.key, it.arg)
      [] it.kind = "crossword" -> Tst_visit_crossword_values(tst, it.key, it.arg)

\* an iterator of the kind was drained with next alone
FrontDrained(kind) ==
    iter.kind = kind /\ iter.nones_i >= 1 /\ iter.nones_j = 0 /\ iter.out_j = <<>>

\* The crate's example: SOME_KEYS, inserted in order, each key its own value.
SOME_KEYS ==
    << <<97, 98, 97>>, <<97, 98>>, <<98, 99>>, <<97, 99>>, <<97, 98, 99>>, <<97>>,
       <<98>>, <<97, 99, 97>>, <<99, 97, 97>>, <<99, 98, 99>>, <<98, 97, 99>>, <<99>>,
       <<99, 99, 97>>, <<97, 97, 98>>, <<97, 98, 98>>, <<97, 97>> >>

\* for key in SOME_KEYS { map.insert(key, key); }
RECURSIVE InsertAll(_, _)
InsertAll(t, keys) ==
    IF keys = <<>> \/ t.count < 0 THEN t   \* (never negative: t is evaluated first)
    ELSE IF Len(keys) = 1 THEN Tst_insert(t, keys[1], keys[1]).tst
    ELSE LET half == Len(keys) \div 2
         IN  InsertAll(InsertAll(t, SubSeq(keys, 1, half)), SubSeq(keys, half + 1, Len(keys)))

SampleTst == InsertAll(Tst_new, SOME_KEYS)

\* while let Some(value) = it.next() { v.push(*value) }: at most `calls` calls of
\* next from s, the values pushed so far in s.out, stopping at the first None
RECURSIVE Drain(_, _, _, _)
Drain(which, root, s, calls) ==
    IF s.done \/ calls = 0 THEN s
    ELSE IF calls = 1
    THEN LET r == WhileLet(which, root, Continue(s.it), LoopBound(root))
         IN  [it |-> r.it, out |-> s.out \o r.found, done |-> r.found = None]
    ELSE Drain(which, root, Drain(which, root, s, calls \div 2), calls - calls \div 2)

\* the Vec after the loop: every node yields at most one value, then comes None
Drained(which, root, it) ==
    Drain(which, root, [it |-> it, out |-> <<>>, done |-> FALSE], NodeCount(root) + 1).out

\* C5: draining iter() with next yields the stored values in strictly ascending
\* key order, value for value the callbacks of visit_values on the same tree.
C5_IterAscending ==
    FrontDrained("iter") =>
        /\ iter.out_i = InKeyOrder(tst, StoredKeys(tst))
        /\ iter.out_i = Tst_visit_values(tst)

\* iter() was drained over a tree in which a key and one of its extensions are
\* stored, and a key with a smaller first char
C5_Witness ==
    /\ FrontDrained("iter")
    /\ Len(iter.out_i) >= 3
    /\ \E k1, k2 \in StoredKeys(tst) : k1 # k2 /\ IsPrefix(k1, k2)

\* C6: for each of the four iterators and every interleaving of next and
\* next_back continued until both return None, the values of next followed by
\* the reverse of the values of next_back are the callbacks of the visitor.
C6_ExactlyOnce ==
    (iter # NoIter /\ iter.nones_i >= 1 /\ iter.nones_j >= 1) =>
        iter.out_i \o Reverse(iter.out_j) = VisitorOf(iter)

\* the stored keys iter_complete(p) is said to cover by the crate's documentation
WithPrefix(t, p) == {k \in StoredKeys(t) : IsPrefix(p, k)}

\* the stored keys that begin with p and are longer than p
Extensions(t, p) == {k \in StoredKeys(t) : IsPrefix(p, k) /\ Len(k) > Len(p)}

\* map.iter_complete("a"), drained with next, on the crate's example
SampleComplete ==
    Drained("TstIterator::next", CompleteRoot(SampleTst, <<97>>),
            TstIterator_new_from_root(CompleteRoot(SampleTst, <<97>>)))

\* the elements of a sequence
Range(seq) == {seq[i] : i \in 1..Len(seq)}

\* the values the tree holds under the keys of a set
ValuesOf(t, S) == {Tst_get(t, k)[1] : k \in S}

RECURSIVE NodeOfKey(_, _)
NodeOfKey(link, key) ==
    IF link = None THEN None
    ELSE LET node == link[1]
         IN  IF Head(key) < node.label THEN NodeOfKey(node.left, key)
             ELSE IF Head(key) > node.label THEN NodeOfKey(node.right, key)
             ELSE IF Tail(key) = <<>> THEN Some(node)
             ELSE NodeOfKey(node.middle, Tail(key))

Near(t, r, d) == {k \in StoredKeys(t) : Mismatches(k, r) <= d}

\* map.iter_neighbor("abc", 1), drained with next, on the crate's example
SampleNeighbor ==
    Drained("TstNeighborIterator::next", SampleTst.root,
            TstNeighborIterator_new(SampleTst, <<97, 98, 99>>, 1))

\* C9: for every reachable tree, reference key r and budget d,
\* visit_neighbor_values(r, d) and iter_neighbor(r, d) yield the value of a stored
\* key k if and only if k and r differ at no more than d positions, a position
\* present in only one of them counting as a difference; for r = "abc", d = 1 on
\* the example the result is ab, aba, abb, abc, cbc in that order.
C9_NeighborIsHamming ==
    /\ iter = NoIter =>
          \A r \in Keys, d \in 0..MaxRange :
              Range(Tst_visit_neighbor_values(tst, r, d)) = ValuesOf(tst, Near(tst, r, d))
    /\ FrontDrained("neighbor") =>
          Range(iter.out_i) = ValuesOf(tst, Near(tst, iter.key, iter.arg))
    /\ SampleNeighbor =
          << <<97, 98>>, <<97, 98, 97>>, <<97, 98, 98>>, <<97, 98, 99>>, <<99, 98, 99>> >>
    /\ Tst_visit_neighbor_values(SampleTst, <<97, 98, 99>>, 1) = SampleNeighbor

\* the stored keys a pattern matches
Matching(t, p, joker) == {k \in StoredKeys(t) : Matches(k, p, joker)}

\* map.iter_crossword("a?a", '?'), drained with next, on the crate's example
SampleCrossword ==
    Drained("TstCrosswordIterator::next", SampleTst.root,
            TstCrosswordIterator_new(SampleTst, <<97, 63, 97>>, 63))

\* C10: for every reachable tree, pattern p and joker w,
\* visit_crossword_values(p, w) and iter_crossword(p, w) yield the value of a
\* stored key k if and only if k has as many chars as p and at every position the
\* char of p is w or the char of k; an empty pattern yields nothing; for
\* p = "a?a", w = '?' on the example the result is aba, aca.
C10_CrosswordMatches ==
    /\ iter = NoIter =>
          \A p \in Patterns, w \in Jokers :
              /\ Range(Tst_visit_crossword_values(tst, p, w)) =
                     ValuesOf(tst, Matching(tst, p, w))
              /\ p = <<>> => Tst_visit_crossword_values(tst, p, w) = <<>>
    /\ FrontDrained("crossword") =>
          /\ Range(iter.out_i) = ValuesOf(tst, Matching(tst, iter.key, iter.arg))
          /\ iter.key = <<>> => iter.out_i = <<>>
    /\ Range(SampleCrossword) = {<<97, 98, 97>>, <<97, 99, 97>>}
    /\ Range(Tst_visit_crossword_values(SampleTst, <<97, 63, 97>>, 63)) =
          {<<97, 98, 97>>, <<97, 99, 97>>}

\* map.visit_complete_values_mut("c", |s| *s = "xxx") on the crate's example
SampleMut == Tst_visit_complete_values_mut(SampleTst, <<99>>, <<120, 120, 120>>)

Last(seq) == seq[Len(seq)]

\* C12: for each of the four iterators and under any interleaving of next and
\* next_back, right after next returns a value current_key is the key under which
\* that value is stored, and right after next_back returns a value
\* current_key_back is the key of that value; for iter_complete the prefix is
\* part of the result.  (Every value is its own key here.)
C12_CurrentKeyIsKeyOfValue ==
    iter # NoIter =>
        /\ iter.out_i # <<>> =>
               /\ iter.key_i = Last(iter.out_i)
               /\ Tst_get(tst, iter.key_i) = Some(Last(iter.out_i))
        /\ iter.out_j # <<>> =>
               /\ iter.key_j = Last(iter.out_j)
               /\ Tst_get(tst, iter.key_j) = Some(Last(iter.out_j))

\* iter_complete with a prefix has returned values from both ends, the latest
\* two under different keys
C12_Witness ==
    /\ iter.kind = "complete"
    /\ iter.key # <<>>
    /\ iter.out_i # <<>>
    /\ iter.out_j # <<>>
    /\ iter.key_i # iter.key_j
    /\ IsPrefix(iter.key, iter.key_i)

\* the nodes under a link, their labels and links, and which of them hold a value
RECURSIVE Skeleton(_)
Skeleton(link) ==
    IF link = None THEN None
    ELSE LET node == link[1]
         IN  Some([label |-> node.label, valued |-> node.value # None,
                   left |-> Skeleton(node.left), middle |-> Skeleton(node.middle),
                   right |-> Skeleton(node.right)])

\* C13: insert(k, v) with a non-empty k returns the value stored under k before
\* the call, absent if there was none; when k had a value it is replaced in place,
\* no node is added or removed and len() is unchanged; len() grows by exactly
\* one when k had no value.  Either way get(k) is v afterwards and no other key
\* changes.
C13_InsertReturnsPrevious ==
    \A k \in NonEmptyKeys, v \in Values :
        LET r == Tst_insert(tst, k, v)
        IN  /\ r.ret = Tst_get(tst, k)
            /\ Tst_get(r.tst, k) = Some(v)
            /\ \A k2 \in NonEmptyKeys \ {k} : Tst_get(r.tst, k2) = Tst_get(tst, k2)
            /\ Tst_get(tst, k) # None =>
                   /\ Skeleton(r.tst.root) = Skeleton(tst.root)
                   /\ NodeCount(r.tst.root) = NodeCount(tst.root)
                   /\ Tst_len(r.tst) = Tst_len(tst)
            /\ Tst_get(tst, k) = None => Tst_len(r.tst) = Tst_len(tst) + 1

\* an insert has just replaced the value 1 of the only stored key by 2
C13_Witness ==
    /\ last.op = "insert"
    /\ last.ret = Some(1)
    /\ Tst_len(tst) = 1
    /\ \E k \in NonEmptyKeys : model[k] = Some(2) /\ Tst_get(tst, k) = Some(2)

\* C14, as stated: insert with an empty key returns absent, for every value and
\* every tree.
C14_Original ==
    \A v \in Values : Tst_insert(tst, <<>>, v).ret = None

\* C14, amended: insert with an empty key returns Some(value), the value it was
\* given, for every value and every tree; it is not a previous value, since
\* nothing is stored under the empty key before or after.
C14_EmptyKeyGivesValueBack ==
    \A v \in Values :
        LET r == Tst_insert(tst, <<>>, v)
        IN  /\ r.ret = Some(v)
            /\ Tst_get(tst, <<>>) = None
            /\ Tst_get(r.tst, <<>>) = None

\* an insert has just returned a value though the tree is empty: its key was empty
C14_Witness ==
    /\ last.op = "insert"
    /\ last.ret # None
    /\ tst.root = None

\* C15: empty keys store nothing: insert with an empty key leaves the nodes, the
\* stored values and len() as they were, and get, get_mut and remove with an
\* empty key return absent and change nothing, in every reachable state.
C15_EmptyKeyStoresNothing ==
    /\ \A v \in Values : Tst_insert(tst, <<>>, v).tst = tst
    /\ Tst_get(tst, <<>>) = None
    /\ Tst_get_mut(tst, <<>>) = None
    /\ Tst_remove(tst, <<>>) = [tst |-> tst, ret |-> None]
    /\ \A k \in NonEmptyKeys :
          /\ Tst_get(tst, k) = model[k]
          /\ Tst_get_mut(tst, k) = None <=> Tst_get(tst, k) = None
          /\ Tst_get_mut(tst, k) # None =>
                 Deref(tst.root, Tst_get_mut(tst, k)[1]).value = Tst_get(tst, k)

\* an insert with an empty key has just been made on a tree of three nodes or
\* more that holds two values or more
C15_Witness ==
    /\ last.op = "insert"
    /\ last.empty
    /\ NodeCount(tst.root) >= 3
    /\ Tst_len(tst) >= 2

\* C16: remove(k) for a key that holds no value, whether its path is missing or
\* its last node has no value (k is only a proper prefix of stored keys), returns
\* absent and leaves the nodes, every stored value and len() exactly as they were.
C16_RemoveAbsentChangesNothing ==
    \A k \in NonEmptyKeys :
        Tst_get(tst, k) = None => Tst_remove(tst, k) = [tst |-> tst, ret |-> None]

\* a remove of a non-empty key has just returned absent, on a tree where some
\* key has its path but no value
C16_Witness ==
    /\ last.op = "remove"
    /\ last.ret = None
    /\ ~last.empty
    /\ \E k \in NonEmptyKeys : Tst_get(tst, k) = None /\ NodeOfKey(tst.root, k) # None

\* no node under the link has no value and no child
RECURSIVE NoDeadNode(_)
NoDeadNode(link) ==
    link = None \/ LET node == link[1]
                   IN  /\ ~IsDead(node)
                       /\ NoDeadNode(node.left)
                       /\ NoDeadNode(node.middle)
                       /\ NoDeadNode(node.right)

\* every node without a child holds a value
RECURSIVE LeavesHoldValues(_)
LeavesHoldValues(link) ==
    link = None \/ LET node == link[1]
                   IN  /\ (node.left = None /\ node.middle = None /\ node.right = None)
                              => node.value # None
                       /\ LeavesHoldValues(node.left)
                       /\ LeavesHoldValues(node.middle)
                       /\ LeavesHoldValues(node.right)

\* C17: after any sequence of interleaved insert and remove calls no node has an
\* absent value together with empty left, middle and right links; every leaf
\* holds a value.
C17_NoDeadNode ==
    NoDeadNode(tst.root) /\ LeavesHoldValues(tst.root)

\* a remove has just returned a value and left nodes that hold no value
C17_Witness ==
    /\ last.op = "remove"
    /\ last.ret # None
    /\ NodeCount(tst.root) > ValueCount(tst.root)

\* the first next() and next_back() of every iterator built on the tree yield nothing
IteratorsYieldNothing(tree) ==
    /\ TstIterator_next(tree.root, TstIterator_new_from_root(tree.root)).found = None
    /\ TstIterator_next_back(tree.root, TstIterator_new_from_root(tree.root)).found = None
    /\ \A p \in Keys :
           LET r == CompleteRoot(tree, p)
           IN  /\ TstIterator_next(r, TstIterator_new_from_root(r)).found = None
               /\ TstIterator_next_back(r, TstIterator_new_from_root(r)).found = None
    /\ \A k \in Keys, range \in 0..MaxRange :
           LET it == TstNeighborIterator_new(tree, k, range)
           IN  /\ TstNeighborIterator_next(tree.root, it).found = None
               /\ TstNeighborIterator_next_back(tree.root, it).found = None
    /\ \A k \in Patterns, joker \in Jokers :
           LET it == TstCrosswordIterator_new(tree, k, joker)
           IN  /\ TstCrosswordIterator_next(tree.root, it).found = None
               /\ TstCrosswordIterator_next_back(tree.root, it).found = None

\* every visitor called on the tree calls its callback for nothing
VisitorsYieldNothing(tree) ==
    /\ Tst_visit_values(tree) = <<>>
    /\ \A p \in Keys :
           /\ Tst_visit_complete_values(tree, p) = <<>>
           /\ \A x \in Values : Tst_visit_complete_values_mut(tree, p, x) = tree
           /\ Tst_visit_complete_values_mut_calls(tree, p) = <<>>
    /\ \A k \in Keys, range \in 0..MaxRange : Tst_visit_neighbor_values(tree, k, range) = <<>>
    /\ \A k \in Patterns, joker \in Jokers : Tst_visit_crossword_values(tree, k, joker) = <<>>

\* C18: after clear() the root is absent, len() is 0, get is absent for every
\* key, every visitor and iterator yields nothing, and the tree is the one new()
\* builds, so every later operation behaves as on a new tree.
C18_ClearLeavesNewTree ==
    last.op = "clear" =>
        /\ tst.root = None
        /\ Tst_len(tst) = 0
        /\ \A k \in Keys : Tst_get(tst, k) = None /\ Tst_get_mut(tst, k) = None
        /\ VisitorsYieldNothing(tst)
        /\ IteratorsYieldNothing(tst)
        /\ tst = Tst_new

\* clear() has just emptied a tree that held two values or more
C18_Witness ==
    last.op = "clear" /\ last.len >= 2 /\ tst.root = None

\* C19: with the empty prefix, visit_complete_values, visit_complete_values_mut
\* and iter_complete cover the whole tree: they yield exactly the same values in
\* the same order as visit_values and iter.
C19_EmptyPrefixIsWholeTree ==
    /\ iter = NoIter =>
          /\ Tst_visit_complete_values(tst, <<>>) = Tst_visit_values(tst)
          /\ Tst_visit_complete_values_mut_calls(tst, <<>>) = Tst_visit_values(tst)
          /\ \A x \in Values :
                 LET after == Tst_visit_complete_values_mut(tst, <<>>, x)
                 IN  /\ \A k \in StoredKeys(tst) : Tst_get(after, k) = Some(x)
                     /\ StoredKeys(after) = StoredKeys(tst)
    /\ (iter # NoIter /\ iter.kind = "complete" /\ iter.key = <<>>) =>
          /\ iter.root = tst.root
          /\ iter.it = IF iter.out_i = <<>> /\ iter.out_j = <<>>
                           /\ iter.nones_i = 0 /\ iter.nones_j = 0
                       THEN TstIterator_new_from_root(tst.root) ELSE iter.it
          /\ FrontDrained("complete") =>
                 /\ iter.out_i = Tst_visit_values(tst)
                 /\ iter.out_i =
                        Drained("TstIterator::next", tst.root, TstIterator_new_from_root(tst.root))
          /\ (iter.nones_j >= 1 /\ iter.nones_i = 0 /\ iter.out_i = <<>>) =>
                 iter.out_j = Reverse(Tst_visit_values(tst))

\* iter_complete("") has been drained from the front on a tree of three values or more
C19_Witness ==
    /\ FrontDrained("complete")
    /\ iter.key = <<>>
    /\ Len(iter.out_i) >= 3
    /\ iter.out_i = Tst_visit_complete_values(tst, <<>>)

\* the labels of the nodes reached from a link through left and right links only:
\* the labels at one key position
RECURSIVE Siblings(_)
Siblings(link) ==
    IF link = None THEN {}
    ELSE {link[1].label} \cup Siblings(link[1].left) \cup Siblings(link[1].right)

\* the number of nodes reached from a link through left and right links only
RECURSIVE SiblingCount(_)
SiblingCount(link) ==
    IF link = None THEN 0
    ELSE 1 + SiblingCount(link[1].left) + SiblingCount(link[1].right)

\* at every node under the link, the labels on the left are smaller and the labels
\* on the right are greater, and no label is held twice at one key position
RECURSIVE Ordered(_)
Ordered(link) ==
    link = None \/ LET node == link[1]
                   IN  /\ \A l \in Siblings(node.left) : l < node.label
                       /\ \A l \in Siblings(node.right) : l > node.label
                       /\ SiblingCount(link) = Cardinality(Siblings(link))
                       /\ Ordered(node.left)
                       /\ Ordered(node.middle)
                       /\ Ordered(node.right)

\* some node under the link has a left and a right child
RECURSIVE HasFork(_)
HasFork(link) ==
    link # None /\ LET node == link[1]
                   IN  \/ node.left # None /\ node.right # None
                       \/ HasFork(node.left)
                       \/ HasFork(node.middle)
                       \/ HasFork(node.right)

\* C20: for every node n, every label in n's left subtree reached through left
\* and right links only is strictly less than n's label and every such label in
\* the right subtree is strictly greater; no two nodes at one key position hold
\* the same label.
C20_LabelsOrdered ==
    Ordered(tst.root)

\* a remove has just returned a value and left a node with a left and a right child
C20_Witness ==
    /\ last.op = "remove"
    /\ last.ret # None
    /\ HasFork(tst.root)

\* the iterator was drained from the back only
BackDrained(kind) ==
    iter.kind = kind /\ iter.nones_j >= 1 /\ iter.nones_i = 0 /\ iter.out_i = <<>>

\* the values under a link in the order right subtree, own value, middle subtree,
\* left subtree
RECURSIVE RightVisitMiddleLeft(_)
RightVisitMiddleLeft(link) ==
    IF link = None THEN <<>>
    ELSE LET node == link[1]
         IN  RightVisitMiddleLeft(node.right) \o node.value
                \o RightVisitMiddleLeft(node.middle) \o RightVisitMiddleLeft(node.left)

\* the values under a link in the order right subtree, middle subtree, own value,
\* left subtree
RECURSIVE RightMiddleVisitLeft(_)
RightMiddleVisitLeft(link) ==
    IF link = None THEN <<>>
    ELSE LET node == link[1]
         IN  RightMiddleVisitLeft(node.right) \o RightMiddleVisitLeft(node.middle)
                \o node.value \o RightMiddleVisitLeft(node.left)

\* C21, as stated: next_back processes each node in the order GoRight, Visit,
\* GoMiddle, GoLeft: the right subtree, then the node's own value, then its middle
\* subtree, then its left subtree.
C21_Original ==
    BackDrained("iter") => iter.out_j = RightVisitMiddleLeft(tst.root)

\* C21, amended: next_back processes each node in the order GoRight, GoMiddle,
\* Visit, GoLeft: the right subtree, then the middle subtree, then the node's own
\* value, then its left subtree.
C21_BackwardOrder ==
    /\ BackDrained("iter") => iter.out_j = RightMiddleVisitLeft(tst.root)
    /\ BackDrained("complete") => iter.out_j = RightMiddleVisitLeft(iter.root)

\* iter() has been drained from the back on a tree that holds a key and a longer
\* key that starts with it
C21_Witness ==
    /\ BackDrained("iter")
    /\ \E k \in StoredKeys(tst) : \E e \in StoredKeys(tst) : e # k /\ IsPrefix(k, e)
    /\ Len(iter.out_j) >= 2

\* the iterator the tree gives for the parameters the iterator in use was built with
FreshOf(i) ==
    CASE i.kind = "iter" -> TstIterator_new_from_root(tst.root)
      [] i.kind = "complete" -> TstIterator_new_from_root(CompleteRoot(tst, i.key))
      [] i.kind = "neighbor" -> TstNeighborIterator_new(tst, i.key, i.arg)
      [] i.kind = "crossword" -> TstCrosswordIterator_new(tst, i.key, i.arg)

\* the next of an iterator
NextOf(i) ==
    CASE i.kind \in {"iter", "complete"} -> "TstIterator::next"
      [] i.kind = "neighbor" -> "TstNeighborIterator::next"
      [] i.kind = "crossword" -> "TstCrosswordIterator::next"

\* the keys of a sequence are in strictly ascending order
StrictlyAscending(seq) ==
    \A i \in 1..Len(seq) - 1 : KeyLess(seq[i], seq[i + 1])

\* C22: for each of the four iterators, draining a fresh iterator with next_back
\* only gives exactly the reverse of draining a fresh iterator with next only;
\* from the back the values come out in strictly descending key order.
C22_BackIsReverseOfFront ==
    (iter # NoIter /\ BackDrained(iter.kind)) =>
        /\ iter.out_j = Reverse(Drained(NextOf(iter), iter.root, FreshOf(iter)))
        /\ StrictlyAscending(Reverse(iter.out_j))

\* a neighbor or crossword iterator has been drained from the back and gave two
\* values or more
C22_Witness ==
    /\ iter # NoIter
    /\ iter.kind \in {"neighbor", "crossword"}
    /\ BackDrained(iter.kind)
    /\ Len(iter.out_j) >= 2

\* C23: for every reachable tree, reference key and budget (budget 0 and the
\* empty reference key included), draining iter_neighbor with next yields
\* exactly the same values in the same order as the callbacks made by
\* visit_neighbor_values with the same arguments.
C23_NeighborIterIsVisitor ==
    FrontDrained("neighbor") =>
        iter.out_i = Tst_visit_neighbor_values(tst, iter.key, iter.arg)

\* C24: for every reachable tree, pattern and wildcard character, draining
\* iter_crossword with next yields exactly the same values in the same order as
\* the callbacks made by visit_crossword_values with the same arguments.
C24_CrosswordIterIsVisitor ==
    FrontDrained("crossword") =>
        iter.out_i = Tst_visit_crossword_values(tst, iter.key, iter.arg)

\* C25: once the remaining budget is zero the neighbor search is exact-match
\* only, so visit_neighbor_values(r, 0) and iter_neighbor(r, 0) yield exactly the
\* value get(r) returns when there is one and nothing otherwise (nothing at all
\* for an empty r).
C25_ZeroBudgetIsGet ==
    /\ iter = NoIter =>
          \A r \in Keys : Tst_visit_neighbor_values(tst, r, 0) = Tst_get(tst, r)
    /\ (FrontDrained("neighbor") /\ iter.arg = 0) => iter.out_i = Tst_get(tst, iter.key)

\* what a next and a next_back called now on the iterator in use would return
NextNow(i) ==
    WhileLet(NextOf(i), i.root, Continue(i.it), LoopBound(i.root)).found
NextBackNow(i) ==
    WhileLet(CASE i.kind \in {"iter", "complete"} -> "TstIterator::next_back"
               [] i.kind = "neighbor" -> "TstNeighborIterator::next_back"
               [] i.kind = "crossword" -> "TstCrosswordIterator::next_back",
             i.root, Continue(i.it), LoopBound(i.root)).found

\* C26: when next or next_back is about to emit the node whose value the opposite
\* direction emitted last, the call returns None and both stacks are cleared;
\* once either next or next_back has returned None, every later next and
\* next_back returns None (also next_back after a drain from the front only, and
\* next after a drain from the back only).
C26_NoneIsFinal ==
    (iter # NoIter /\ iter.nones_i + iter.nones_j >= 1) =>
        /\ ~iter.late
        /\ NextNow(iter) = None
        /\ NextBackNow(iter) = None
        /\ (iter.nones_i >= 1 /\ iter.out_j # <<>>) =>
               iter.it.todo_i = <<>> /\ iter.it.todo_j = <<>>
        /\ (iter.nones_j >= 1 /\ iter.out_i # <<>>) =>
               iter.it.todo_i = <<>> /\ iter.it.todo_j = <<>>

\* next and next_back have both returned values, then both returned None
C26_Witness ==
    /\ iter # NoIter
    /\ iter.nones_i >= 1 /\ iter.nones_j >= 1
    /\ iter.out_i # <<>> /\ iter.out_j # <<>>
    /\ iter.it.todo_i = <<>> /\ iter.it.todo_j = <<>>

\* no two frames of a stack hold the same node
NoNodeTwice(todo) ==
    \A i \in 1..Len(todo) : \A j \in 1..Len(todo) : i # j => todo[i].node # todo[j].node

\* C27: every next / next_back call terminates and emits at most one value, and
\* on a finite tree any sequence of next and next_back calls reaches a call
\* returning None after finitely many calls: every call ends within four loop
\* turns per node, a node is on a direction's stack at most once at a time, no
\* value is emitted twice, and the calls that return a value are at most as many
\* as the tree's values.
C27_CallsTerminate ==
    iter # NoIter =>
        /\ ~iter.stuck
        /\ WhileLet(NextOf(iter), iter.root, Continue(iter.it), LoopBound(iter.root)).done
        /\ NoNodeTwice(iter.it.todo_i)
        /\ NoNodeTwice(iter.it.todo_j)
        /\ Len(iter.it.todo_i) <= NodeCount(iter.root)
        /\ Len(iter.it.todo_j) <= NodeCount(iter.root)
        /\ Len(iter.out_i) + Len(iter.out_j) <= ValueCount(iter.root)
        /\ \A v \in Range(iter.out_i) : v \notin Range(iter.out_j)
        /\ Cardinality(Range(iter.out_i)) = Len(iter.out_i)
        /\ Cardinality(Range(iter.out_j)) = Len(iter.out_j)

\* calls from both ends have returned every value of a tree of three values or
\* more, and a call has returned None
C27_Witness ==
    /\ iter # NoIter
    /\ iter.out_i # <<>> /\ iter.out_j # <<>>
    /\ Len(iter.out_i) + Len(iter.out_j) = ValueCount(iter.root)
    /\ ValueCount(iter.root) >= 3
    /\ iter.nones_i + iter.nones_j >= 1

\* every node under the old link is under the new link at the same place with the
\* same label, and so are its child links
RECURSIVE KeepsNodes(_, _)
KeepsNodes(old, new) ==
    old = None \/ /\ new # None
                   /\ new[1].label = old[1].label
                   /\ KeepsNodes(old[1].left, new[1].left)
                   /\ KeepsNodes(old[1].middle, new[1].middle)
                   /\ KeepsNodes(old[1].right, new[1].right)

\* C28: insert never removes, relabels or re-parents an existing node: inserting
\* a key of n characters adds at most n new nodes, each on a link that was empty,
\* and leaves every existing node's label and child links as they were, and the
\* value of every other key.
C28_InsertOnlyAddsNodes ==
    \A key \in NonEmptyKeys :
        LET after == Tst_insert(tst, key, 1).tst
        IN  /\ KeepsNodes(tst.root, after.root)
            /\ NodeCount(after.root) >= NodeCount(tst.root)
            /\ NodeCount(after.root) - NodeCount(tst.root) <= Len(key)
            /\ (Tst_get(tst, key) # None) => Skeleton(after.root) = Skeleton(tst.root)
            /\ \A k \in NonEmptyKeys \ {key} : Tst_get(after, k) = Tst_get(tst, k)

\* an insert of a new key has just returned absent and left a tree that holds a
\* fork and three nodes or more
C28_Witness ==
    /\ last.op = "insert"
    /\ last.ret = None
    /\ ~last.empty
    /\ NodeCount(tst.root) >= 3
    /\ HasFork(tst.root)

\* between two trees, the nodes, len() and the values are the same but for the
\* values handed to the callback, which are x now
OnlyThoseChanged(before, after, calls, x) ==
    /\ Skeleton(after.root) = Skeleton(before.root)
    /\ Tst_len(after) = Tst_len(before)
    /\ \A k \in NonEmptyKeys :
           Tst_get(after, k) = IF Tst_get(before, k) # None
                                   /\ Tst_get(before, k)[1] \in Range(calls)
                                THEN Some(x) ELSE Tst_get(before, k)

\* the value the callbacks write: the string "0", which is no key
Mark == <<48>>

\* C29: each mutating visitor (visit_values_mut, visit_complete_values_mut,
\* visit_neighbor_values_mut, visit_crossword_values_mut) calls its callback on
\* exactly the same keys in the same order as its read-only counterpart, and it,
\* like get_mut, can change only the values of those keys: the node structure,
\* len() and the values of all other keys are unchanged.
C29_MutVisitorsMatchReadOnly ==
    iter = NoIter =>
        /\ Tst_visit_values_mut_calls(tst) = Tst_visit_values(tst)
        /\ OnlyThoseChanged(tst, Tst_visit_values_mut(tst, Mark), Tst_visit_values(tst), Mark)
        /\ \A p \in Keys :
               LET calls == Tst_visit_complete_values_mut_calls(tst, p)
               IN  /\ calls = Tst_visit_complete_values(tst, p)
                   /\ OnlyThoseChanged(tst, Tst_visit_complete_values_mut(tst, p, Mark),
                                       calls, Mark)
        /\ \A k \in Keys, dist \in 0..MaxRange :
               LET calls == Tst_visit_neighbor_values_mut_calls(tst, k, dist)
               IN  /\ calls = Tst_visit_neighbor_values(tst, k, dist)
                   /\ OnlyThoseChanged(tst, Tst_visit_neighbor_values_mut(tst, k, dist, Mark),
                                       calls, Mark)
        /\ \A k \in Patterns, joker \in Jokers :
               LET calls == Tst_visit_crossword_values_mut_calls(tst, k, joker)
               IN  /\ calls = Tst_visit_crossword_values(tst, k, joker)
                   /\ OnlyThoseChanged(tst, Tst_visit_crossword_values_mut(tst, k, joker, Mark),
                                       calls, Mark)
        /\ \A k \in Keys :
               LET value == Tst_get_mut(tst, k)
               IN  value # None =>
                       OnlyThoseChanged(tst, [tst EXCEPT !.root = WriteAt(@, value[1], Mark)],
                                        Tst_get(tst, k), Mark)

\* on a tree of three values or more, visit_neighbor_values_mut and
\* visit_crossword_values_mut each overwrite some values and leave others
C29_Witness ==
    /\ iter = NoIter
    /\ ValueCount(tst.root) >= 3
    /\ \E k \in Keys :
           LET calls == Tst_visit_neighbor_values_mut_calls(tst, k, 1)
               after == Tst_visit_neighbor_values_mut(tst, k, 1, Mark)
           IN  /\ Len(calls) >= 2
               /\ Len(calls) < ValueCount(tst.root)
               /\ \A v \in Range(calls) : Tst_get(after, v) = Some(Mark)
    /\ \E k \in Patterns :
           LET calls == Tst_visit_crossword_values_mut_calls(tst, k, 63)
               after == Tst_visit_crossword_values_mut(tst, k, 63, Mark)
           IN  /\ Len(calls) >= 2
               /\ Len(calls) < ValueCount(tst.root)
               /\ \A v \in Range(calls) : Tst_get(after, v) = Some(Mark)

\* in every frame of a stack, tail_len is the number of chars left in key_tail
TailLenIsCharsLeft(todo) ==
    \A i \in 1..Len(todo) : todo[i].tail_len = Len(todo[i].key_tail)

\* C30: in neighbor search (visitor and iterator) and in the crossword iterator,
\* the tracked remaining length tail_len always equals the number of characters
\* still unread in the reference key or pattern, for every reference string, also
\* one whose characters take more than one byte.
C30_TailLenCountsChars ==
    /\ \A key \in Keys : TailLen(key) = Len(NextTail(key))
    /\ (iter # NoIter /\ iter.kind \in {"neighbor", "crossword"}) =>
          /\ TailLenIsCharsLeft(iter.it.todo_i)
          /\ TailLenIsCharsLeft(iter.it.todo_j)

=============================================================================
